---- MODULE Spec2Model ----
\* Model of src/script.js: the scene graph built at load, the animation
\* loop (animate + THREE.Clock + requestAnimationFrame) and the window
\* resize listener.
\*
\* Units.  Angular speeds are kept in tenths of a degree per second
\* (47.8 deg/s = 478), lengths in tenths of a scene unit, host time in
\* milliseconds.  clock.getDelta() divides by 1000 and degToRad() multiplies
\* by pi/180; both are exact rescalings here, so dt is held in milliseconds
\* and an angle in units of 1/10 degree * 1/1000 second (1e-4 degree):
\* 29.7 degrees is 297 * 1000.  Device pixel ratios are kept in halves
\* (1.5 = 3), so the cap Math.min(dpr, 2) is Min(dpr, 4).
EXTENDS Integers, Sequences, FiniteSets, TLC

VARIABLES
    innerWidth, innerHeight, devicePixelRatio,  \* window.* (host state)
    now,                \* host time, what performance.now() returns
    resizeQueued,       \* the host has a 'resize' event to dispatch
    pendingFrames,      \* callbacks queued by requestAnimationFrame
    listening,          \* the resize listener is registered (line 253)
    lastEvent,          \* last handler the event loop entered
    resizeRepeated,     \* the last two handlers were the resize listener,
                        \* and both saw the same window size
    renderer,           \* WebGLRenderer: pixelRatio, width, height, canvas size
    camera,             \* PerspectiveCamera: aspect and the aspect baked
                        \* into the projection matrix
    clock,              \* THREE.Clock
    parent, children,   \* Object3D.parent / Object3D.children, by node
    kind,               \* what each node is
    position,           \* Object3D.position
    rotationZ,          \* Object3D.rotation.z (tilt, tenths of a degree)
    rotationY,          \* Object3D.rotation.y
    planets,            \* the list of handles returned by createPlanet
    script,             \* createPlanet calls of lines 158-221 still to run
    pc,                 \* position of the single JS thread
    dt,                 \* animate's local dt
    entryRotationY,     \* rotationY as it was when animate() was entered
    idx,                \* animate's position in 'for (const p of planets)'
    tickCount,          \* invocations of animate()
    controlsCount,      \* calls of controls.update()
    renderCount         \* calls of renderer.render(scene, camera)

eventVars == <<lastEvent, resizeRepeated>>
hostVars == <<innerWidth, innerHeight, devicePixelRatio, now, resizeQueued>>
graphVars == <<parent, children, kind, position, rotationZ>>
viewVars == <<renderer, camera>>
tickVars == <<pc, dt, entryRotationY, idx, tickCount, controlsCount, renderCount>>
vars == <<innerWidth, innerHeight, devicePixelRatio, now, resizeQueued,
          pendingFrames, listening, lastEvent, resizeRepeated, renderer,
          camera, clock, parent, children, kind, position, rotationZ, rotationY, planets,
          script, pc, dt, entryRotationY, idx, tickCount, controlsCount, renderCount>>

\* ---------------------------------------------------------------- bounds
MaxNow == 2000                  \* host time is explored up to here
Delays == {500, 1000}           \* milliseconds between display refreshes
Widths == {800, 801}            \* window.innerWidth values
Heights == {600, 601}           \* window.innerHeight values
PixelRatios == {2, 3, 6}        \* devicePixelRatio 1, 1.5, 3 (in halves)

\* ------------------------------------------------------------- constants
OneSecond == 1000               \* getDelta: milliseconds per second
SunSpinSpeed == 20              \* degToRad(2.0), tenths of a degree
PixelRatioCap == 4              \* Math.min(window.devicePixelRatio, 2)

Min(a, b) == IF a < b THEN a ELSE b

RECURSIVE GCD(_, _)
GCD(a, b) == IF b = 0 THEN a ELSE GCD(b, a % b)

\* w / h as the exact quotient: the reduced fraction <<num, den>>
Quotient(w, h) == <<w \div GCD(w, h), h \div GCD(w, h)>>

\* ------------------------------------------------------------ scene graph
\* A scene under construction: one sequence per Object3D field, indexed by
\* node id (creation order).  parent 0 is null.
EmptyGraph ==
    [parent |-> <<>>, children |-> <<>>, kind |-> <<>>,
     position |-> <<>>, rotationZ |-> <<>>, rotationY |-> <<>>]

\* new THREE.Object3D (Group, Mesh, Light, ...): no parent, no children,
\* position (0,0,0), rotation (0,0,0).  Its id is Len(g.kind) + 1.
NewObject(g, k) ==
    [parent |-> Append(g.parent, 0),
     children |-> Append(g.children, <<>>),
     kind |-> Append(g.kind, k),
     position |-> Append(g.position, <<0, 0, 0>>),
     rotationZ |-> Append(g.rotationZ, 0),
     rotationY |-> Append(g.rotationY, 0)]

LastId(g) == Len(g.kind)

Without(s, x) == SelectSeq(s, LAMBDA y : y # x)

\* Object3D.add(child): detach the child from its current parent, if any,
\* then set child.parent and push it on this.children.
Add(g, p, c) ==
    LET old == g.parent[c]
        g1 == IF old # 0 THEN [g EXCEPT !.children[old] = Without(@, c)]
              ELSE g
    IN  [g1 EXCEPT !.parent[c] = p, !.children[p] = Append(@, c)]

\* object.position.set(x, y, z)
SetPosition(g, n, x, y, z) == [g EXCEPT !.position[n] = <<x, y, z>>]

\* Node ids of the objects created before the planets (lines 12-76).
scene == 1
starField == 2
starPoints == 3
sunLight == 4
ambientLight == 5
sunGroup == 6
sun == 7

\* Lines 12-76: scene, sky sphere, star points, lights, sun group and sun.
BaseGraph ==
    LET g1 == NewObject(EmptyGraph, "Scene")
        g2 == Add(NewObject(g1, "Mesh:starField"), scene, starField)
        g3 == Add(NewObject(g2, "Points"), scene, starPoints)
        g4 == Add(NewObject(g3, "PointLight"), scene, sunLight)
        g5 == Add(NewObject(g4, "AmbientLight"), scene, ambientLight)
        g6 == Add(NewObject(g5, "Group:sunGroup"), scene, sunGroup)
        g7 == Add(NewObject(g6, "Mesh:sun"), sunGroup, sun)
        g8 == SetPosition(g7, sunLight, 0, 0, 0)
    IN  Add(g8, sunGroup, sunLight)

\* A destructured parameter with its default (lines 79-89).
Param(o, f, default) == IF f \in DOMAIN o THEN o[f] ELSE default

\* Mutation of AttachRing: the ring is parented to the spinning mesh.
AttachRingToMesh(g, planetGroup, mesh, ring) ==
    IF ring # <<>>
    THEN [graph |-> Add(NewObject(g, "Mesh:ring"), mesh, LastId(g) + 1),
          ringMesh |-> LastId(g) + 1]
    ELSE [graph |-> g, ringMesh |-> 0]

\* Lines 114-125: the optional ring; <<>> is 'ring = null', ringMesh 0 is
\* null.  ringGeo.rotateX turns the geometry, not the node.
AttachRing(g, planetGroup, mesh, ring) ==
    IF ring # <<>>
    THEN [graph |-> Add(NewObject(g, "Mesh:ring"), planetGroup, LastId(g) + 1),
          ringMesh |-> LastId(g) + 1]
    ELSE [graph |-> g, ringMesh |-> 0]

\* Lines 127-139: one pivot and one mesh per moon.
RECURSIVE AttachMoons(_, _, _, _)
AttachMoons(g, planetGroup, moons, moonPivots) ==
    IF moons = <<>> THEN [graph |-> g, moonPivots |-> moonPivots]
    ELSE
      LET m == Head(moons)
          moonPivot == LastId(g) + 1
          g1 == Add(NewObject(g, "Group:moonPivot"), planetGroup, moonPivot)
          moonMesh == LastId(g1) + 1
          g2 == SetPosition(NewObject(g1, "Mesh:moon"), moonMesh,
                            m.distance, 0, 0)
          g3 == Add(g2, moonPivot, moonMesh)
      IN  AttachMoons(g3, planetGroup, Tail(moons),
                      Append(moonPivots,
                             [pivot |-> moonPivot, speed |-> m.orbitalSpeed]))

\* Lines 79-152.
createPlanet(g, o) ==
    LET name == Param(o, "name", "planet")
        distance == Param(o, "distance", 250)
        orbitalSpeed == Param(o, "orbitalSpeed", 5)
        spinSpeed == Param(o, "spinSpeed", 150)
        tiltDeg == Param(o, "tiltDeg", 0)
        ring == Param(o, "ring", <<>>)
        moons == Param(o, "moons", <<>>)
        orbitPivot == LastId(g) + 1
        g1 == Add(SetPosition(NewObject(g, "Group:orbitPivot"),
                              orbitPivot, 0, 0, 0),
                  sunGroup, orbitPivot)
        orbitLine == LastId(g1) + 1
        g2 == Add(NewObject(g1, "LineLoop"), orbitPivot, orbitLine)
        planetGroup == LastId(g2) + 1
        g3 == SetPosition(NewObject(g2, "Group:planetGroup"),
                          planetGroup, distance, 0, 0)
        g4 == Add([g3 EXCEPT !.rotationZ[planetGroup] = tiltDeg],
                  orbitPivot, planetGroup)
        mesh == LastId(g4) + 1
        g5 == Add(NewObject(g4, "Mesh:planet"), planetGroup, mesh)
        r == AttachRing(g5, planetGroup, mesh, ring)
        ms == AttachMoons(r.graph, planetGroup, moons, <<>>)
    IN  [graph |-> ms.graph,
         handle |-> [name |-> name, orbitPivot |-> orbitPivot,
                     planetGroup |-> planetGroup, mesh |-> mesh,
                     ringMesh |-> r.ringMesh, spinSpeed |-> spinSpeed,
                     orbitalSpeed |-> orbitalSpeed,
                     moonPivots |-> ms.moonPivots]]

\* The six parameter objects of lines 158-221.
PlanetTable ==
    << [name |-> "mercury", radius |-> 20, color |-> 11645361,
        distance |-> 220, orbitalSpeed |-> 478, spinSpeed |-> 30],
       [name |-> "venus", radius |-> 30, color |-> 15654018,
        distance |-> 340, orbitalSpeed |-> 350, spinSpeed |-> -20],
       [name |-> "earth", radius |-> 32, color |-> 3050327,
        distance |-> 480, orbitalSpeed |-> 297, spinSpeed |-> 180,
        tiltDeg |-> 235,
        moons |-> <<[radius |-> 9, distance |-> 60, orbitalSpeed |-> 120,
                     color |-> 16777215]>>],
       [name |-> "mars", radius |-> 24, color |-> 11674146,
        distance |-> 620, orbitalSpeed |-> 241, spinSpeed |-> 160,
        moons |-> <<[radius |-> 6, distance |-> 45, orbitalSpeed |-> 180,
                     color |-> 14540253]>>],
       [name |-> "jupiter", radius |-> 70, color |-> 13808780,
        distance |-> 950, orbitalSpeed |-> 131, spinSpeed |-> 190,
        moons |-> <<[radius |-> 6, distance |-> 45, orbitalSpeed |-> 180,
                     color |-> 14540253]>>],
       [name |-> "saturn", radius |-> 65, color |-> 16113331,
        distance |-> 1150, orbitalSpeed |-> 96, spinSpeed |-> 220,
        tiltDeg |-> 267,
        ring |-> <<[inner |-> 80, outer |-> 120, color |-> 14471072]>>] >>

\* Two planets built from the same parameter object except for spinSpeed:
\* the two runs the moon-independence property compares, side by side.
PairTable(orbitalSpeed, spinA, spinB, moonSpeed) ==
    LET o == [name |-> "twin", distance |-> 480,
              orbitalSpeed |-> orbitalSpeed, spinSpeed |-> spinA,
              ring |-> <<[inner |-> 80, outer |-> 120, color |-> 14471072]>>,
              moons |-> <<[radius |-> 9, distance |-> 60,
                           orbitalSpeed |-> moonSpeed, color |-> 16777215]>>]
    IN  <<o, [o EXCEPT !.spinSpeed = spinB]>>

PairOrbitalSpeeds == {297}
PairSpinSpeeds == {0, -20, 180}
PairMoonSpeeds == {0, 120}

\* ---------------------------------------------------- renderer and camera
\* Mutation of SetSize: scales by the ratio the window reports now.
SetSizeLiveRatio(r, w, h) ==
    [r EXCEPT !.width = w, !.height = h,
              !.canvasWidth = (w * Min(devicePixelRatio, PixelRatioCap)) \div 2,
              !.canvasHeight = (h * Min(devicePixelRatio, PixelRatioCap)) \div 2]

\* renderer.setSize(w, h): canvas.width = Math.floor(w * pixelRatio),
\* with the ratio stored by setPixelRatio (in halves here).
SetSize(r, w, h) ==
    [r EXCEPT !.width = w, !.height = h,
              !.canvasWidth = (w * r.pixelRatio) \div 2,
              !.canvasHeight = (h * r.pixelRatio) \div 2]

\* renderer.setPixelRatio(v): store the ratio and re-apply the size.
SetPixelRatio(r, v) == SetSize([r EXCEPT !.pixelRatio = v], r.width, r.height)

\* Lines 7-9: a fresh renderer on the default 300x150 canvas at ratio 1,
\* then setPixelRatio(Math.min(devicePixelRatio, 2)) and setSize(w, h).
NewRenderer(w, h, dpr) ==
    LET r0 == [pixelRatio |-> 2, width |-> 300, height |-> 150,
               canvasWidth |-> 300, canvasHeight |-> 150]
    IN  SetSize(SetPixelRatio(r0, Min(dpr, PixelRatioCap)), w, h)

\* camera.updateProjectionMatrix(): the matrix is rebuilt from camera.aspect.
UpdateProjectionMatrix(c) == [c EXCEPT !.projection = c.aspect]

\* Line 15: new PerspectiveCamera(75, innerWidth / innerHeight, 0.1, 2000);
\* the constructor builds the projection matrix.
NewCamera(w, h) ==
    UpdateProjectionMatrix([aspect |-> Quotient(w, h), projection |-> <<0, 1>>])

\* ------------------------------------------------------------------ clock
\* Line 224: new THREE.Clock(), autoStart true, not running.
NewClock == [autoStart |-> TRUE, running |-> FALSE,
             startTime |-> 0, oldTime |-> 0, elapsedTime |-> 0]

\* clock.getDelta() at host time t: the first call starts the clock and
\* returns 0; later calls return the time since the previous call and add
\* it to elapsedTime.
GetDelta(c, t) ==
    IF c.autoStart /\ ~c.running
    THEN [clock |-> [c EXCEPT !.startTime = t, !.oldTime = t,
                              !.elapsedTime = 0, !.running = TRUE],
          diff |-> 0]
    ELSE IF c.running
    THEN [clock |-> [c EXCEPT !.oldTime = t,
                              !.elapsedTime = @ + (t - c.oldTime)],
          diff |-> t - c.oldTime]
    ELSE [clock |-> c, diff |-> 0]

\* ------------------------------------------------------------------- Init
\* The state when the script reaches line 155 (const planets = []), with
\* the parameter objects of the createPlanet calls that follow.
InitWith(table) ==
        /\ innerWidth \in Widths
        /\ innerHeight \in Heights
        /\ devicePixelRatio \in PixelRatios
        /\ now = 0
        /\ resizeQueued = FALSE
        /\ pendingFrames = 0
        /\ listening = FALSE
        /\ lastEvent = "load"
        /\ resizeRepeated = FALSE
        /\ renderer = NewRenderer(innerWidth, innerHeight, devicePixelRatio)
        /\ camera = NewCamera(innerWidth, innerHeight)
        /\ clock = NewClock
        /\ parent = BaseGraph.parent
        /\ children = BaseGraph.children
        /\ kind = BaseGraph.kind
        /\ position = BaseGraph.position
        /\ rotationZ = BaseGraph.rotationZ
        /\ rotationY = BaseGraph.rotationY
        /\ planets = <<>>
        /\ script = table
        /\ pc = "load"
        /\ dt = 0
        /\ entryRotationY = BaseGraph.rotationY
        /\ idx = 0
        /\ tickCount = 0
        /\ controlsCount = 0
        /\ renderCount = 0

Init == InitWith(PlanetTable)

InitPair ==
    \E os \in PairOrbitalSpeeds, sa \in PairSpinSpeeds,
       sb \in PairSpinSpeeds, mo \in PairMoonSpeeds :
        InitWith(PairTable(os, sa, sb, mo))

\* ---------------------------------------------------------------- animate
\* The scene graph as the record the construction operators work on.
Graph ==
    [parent |-> parent, children |-> children, kind |-> kind,
     position |-> position, rotationZ |-> rotationZ, rotationY |-> rotationY]

\* Lines 158-221: the next planets.push(createPlanet({...})).
PushPlanet ==
    /\ pc = "load"
    /\ script # <<>>
    /\ LET c == createPlanet(Graph, Head(script))
       IN  /\ parent' = c.graph.parent
           /\ children' = c.graph.children
           /\ kind' = c.graph.kind
           /\ position' = c.graph.position
           /\ rotationZ' = c.graph.rotationZ
           /\ rotationY' = c.graph.rotationY
           /\ planets' = Append(planets, c.handle)
    /\ script' = Tail(script)
    /\ UNCHANGED <<hostVars, pendingFrames, listening, eventVars, viewVars,
                   clock, tickVars>>

\* Line 250: the script calls animate() directly.
Start ==
    /\ pc = "load"
    /\ script = <<>>
    /\ pc' = "getDelta"
    /\ tickCount' = tickCount + 1
    /\ entryRotationY' = rotationY
    /\ UNCHANGED <<hostVars, pendingFrames, listening, eventVars, viewVars,
                   clock, graphVars, rotationY, planets, script, dt, idx,
                   controlsCount, renderCount>>

\* The host runs one queued animation-frame callback, d ms after the
\* previous display refresh.
Frame(d) ==
    /\ pc = "idle"
    /\ pendingFrames > 0
    /\ now + d <= MaxNow
    /\ now' = now + d
    /\ pendingFrames' = pendingFrames - 1
    /\ lastEvent' = "frame"
    /\ resizeRepeated' = FALSE
    /\ pc' = "getDelta"
    /\ tickCount' = tickCount + 1
    /\ entryRotationY' = rotationY
    /\ UNCHANGED <<innerWidth, innerHeight, devicePixelRatio, resizeQueued,
                   listening, viewVars, clock, graphVars, rotationY, planets,
                   script, dt, idx, controlsCount, renderCount>>

\* Line 227: const dt = clock.getDelta();
ReadClock ==
    /\ pc = "getDelta"
    /\ LET r == GetDelta(clock, now)
       IN  clock' = r.clock /\ dt' = r.diff
    /\ pc' = "sun"
    /\ UNCHANGED <<hostVars, pendingFrames, listening, eventVars, viewVars,
                   graphVars, rotationY, planets, script, entryRotationY, idx, tickCount,
                   controlsCount, renderCount>>

\* Line 230: sun.rotation.y += degToRad(2.0) * dt; then the loop begins.
SpinSun ==
    /\ pc = "sun"
    /\ rotationY' = [rotationY EXCEPT ![sun] = @ + SunSpinSpeed * dt]
    /\ idx' = IF planets = <<>> THEN 0 ELSE 1
    /\ pc' = IF planets = <<>> THEN "controls" ELSE "planets"
    /\ UNCHANGED <<hostVars, pendingFrames, listening, eventVars, viewVars,
                   clock, graphVars, planets, script, entryRotationY, dt, tickCount, controlsCount,
                   renderCount>>

\* Lines 241-243: every moon pivot of one planet.
RECURSIVE AdvanceMoons(_, _, _)
AdvanceMoons(rot, moonPivots, d) ==
    IF moonPivots = <<>> THEN rot
    ELSE LET m == Head(moonPivots)
         IN  AdvanceMoons([rot EXCEPT ![m.pivot] = @ + m.speed * d],
                          Tail(moonPivots), d)

\* Mutation of AdvancePlanet: the moon pivots are driven by the planet's spin.
AdvancePlanetMoonsBySpin(rot, p, d) ==
    LET r1 == [rot EXCEPT ![p.orbitPivot] = @ + p.orbitalSpeed * d]
        r2 == [r1 EXCEPT ![p.mesh] = @ + p.spinSpeed * d]
    IN  AdvanceMoons(r2, [j \in DOMAIN p.moonPivots |->
                            [p.moonPivots[j] EXCEPT !.speed = p.spinSpeed]], d)

\* Mutation of AdvancePlanet: the spin is applied with its sign dropped.
AdvancePlanetAbsSpin(rot, p, d) ==
    LET r1 == [rot EXCEPT ![p.orbitPivot] = @ + p.orbitalSpeed * d]
        r2 == [r1 EXCEPT ![p.mesh] = @ + (IF p.spinSpeed < 0 THEN -p.spinSpeed
                                          ELSE p.spinSpeed) * d]
    IN  AdvanceMoons(r2, p.moonPivots, d)

\* Mutation of AdvancePlanet: the pivot is set from this tick's dt alone.
AdvancePlanetAssign(rot, p, d) ==
    LET r1 == [rot EXCEPT ![p.orbitPivot] = p.orbitalSpeed * d]
        r2 == [r1 EXCEPT ![p.mesh] = @ + p.spinSpeed * d]
    IN  AdvanceMoons(r2, p.moonPivots, d)

\* Lines 234-243: the body of the loop for one planet p.
AdvancePlanet(rot, p, d) ==
    LET r1 == [rot EXCEPT ![p.orbitPivot] = @ + p.orbitalSpeed * d]
        r2 == [r1 EXCEPT ![p.mesh] = @ + p.spinSpeed * d]
    IN  AdvanceMoons(r2, p.moonPivots, d)

\* Mutation of LoopDone: the loop stops one planet short.
LoopDoneEarly(i) == i >= Len(planets) - 1

\* 'for (const p of planets)' is exhausted after the planet at index i.
LoopDone(i) == i >= Len(planets)

\* Mutation of AnimatePlanet: the body group is also moved along its orbit.
AnimatePlanetMovesBody ==
    /\ pc = "planets"
    /\ rotationY' = AdvancePlanet(rotationY, planets[idx], dt)
    /\ position' = [position EXCEPT ![planets[idx].planetGroup] =
                                      <<@[1] - 1, @[2], @[3] + 1>>]
    /\ idx' = IF LoopDone(idx) THEN 0 ELSE idx + 1
    /\ pc' = IF LoopDone(idx) THEN "controls" ELSE "planets"
    /\ UNCHANGED <<hostVars, pendingFrames, listening, eventVars, viewVars,
                   clock, parent, children, kind, rotationZ, planets, script,
                   entryRotationY, dt, tickCount, controlsCount, renderCount>>

\* Lines 233-244: one iteration of the loop.
AnimatePlanet ==
    /\ pc = "planets"
    /\ rotationY' = AdvancePlanet(rotationY, planets[idx], dt)
    /\ idx' = IF LoopDone(idx) THEN 0 ELSE idx + 1
    /\ pc' = IF LoopDone(idx) THEN "controls" ELSE "planets"
    /\ UNCHANGED <<hostVars, pendingFrames, listening, eventVars, viewVars,
                   clock, graphVars, planets, script, entryRotationY, dt, tickCount, controlsCount,
                   renderCount>>

\* Line 246: controls.update();
ControlsUpdate ==
    /\ pc = "controls"
    /\ controlsCount' = controlsCount + 1
    /\ pc' = "render"
    /\ UNCHANGED <<hostVars, pendingFrames, listening, eventVars, viewVars,
                   clock, graphVars, rotationY, planets, script, entryRotationY, dt, idx, tickCount,
                   renderCount>>

\* Line 247: renderer.render(scene, camera);
Render ==
    /\ pc = "render"
    /\ renderCount' = renderCount + 1
    /\ pc' = "raf"
    /\ UNCHANGED <<hostVars, pendingFrames, listening, eventVars, viewVars,
                   clock, graphVars, rotationY, planets, script, entryRotationY, dt, idx, tickCount,
                   controlsCount>>

\* Mutation of Scheduled: the callback is queued twice.
ScheduledTwice(n) == n + 2

\* requestAnimationFrame(animate) queues one callback.
Scheduled(n) == n + 1

\* Lines 248-249: requestAnimationFrame(animate); animate returns, to the
\* script after the first call and to the event loop afterwards.
RequestFrame ==
    /\ pc = "raf"
    /\ pendingFrames' = Scheduled(pendingFrames)
    /\ pc' = IF listening THEN "idle" ELSE "listen"
    /\ UNCHANGED <<hostVars, listening, eventVars, viewVars, clock, graphVars,
                   rotationY, planets, script, entryRotationY, dt, idx, tickCount, controlsCount,
                   renderCount>>

\* ----------------------------------------------------------------- resize
\* Line 253: window.addEventListener('resize', ...); the script ends.
AddListener ==
    /\ pc = "listen"
    /\ listening' = TRUE
    /\ pc' = "idle"
    /\ UNCHANGED <<hostVars, pendingFrames, eventVars, viewVars, clock,
                   graphVars, rotationY, planets, script, entryRotationY, dt, idx, tickCount,
                   controlsCount, renderCount>>

\* The user resizes, zooms or moves the window: the host updates window.*
\* and queues a 'resize' event.
HostResize(w, h, dpr) ==
    /\ innerWidth' = w
    /\ innerHeight' = h
    /\ devicePixelRatio' = dpr
    /\ resizeQueued' = TRUE
    /\ UNCHANGED <<now, pendingFrames, listening, eventVars, viewVars, clock,
                   graphVars, rotationY, planets, script, tickVars>>

\* Mutation of ResizeView: the handler also re-reads the device pixel ratio.
ResizeViewRereadRatio(w, h) ==
    /\ camera' = UpdateProjectionMatrix([camera EXCEPT !.aspect = Quotient(w, h)])
    /\ renderer' = SetSize(SetPixelRatio(renderer, devicePixelRatio), w, h)

\* Lines 256-258: the writes of the resize listener.
ResizeView(w, h) ==
    /\ camera' = UpdateProjectionMatrix([camera EXCEPT !.aspect = Quotient(w, h)])
    /\ renderer' = SetSize(renderer, w, h)

\* Mutation of ResizeListener: the handler also requests a frame.
ResizeListenerReschedules ==
    /\ pc = "idle"
    /\ listening
    /\ resizeQueued
    /\ resizeQueued' = FALSE
    /\ lastEvent' = "resize"
    /\ resizeRepeated' = (/\ lastEvent = "resize"
                          /\ renderer.width = innerWidth
                          /\ renderer.height = innerHeight)
    /\ ResizeView(innerWidth, innerHeight)
    /\ pendingFrames' = Scheduled(pendingFrames)
    /\ UNCHANGED <<innerWidth, innerHeight, devicePixelRatio, now,
                   listening, clock, graphVars, rotationY,
                   planets, script, tickVars>>

\* Lines 253-259: the resize listener, run by the event loop between ticks.
ResizeListener ==
    /\ pc = "idle"
    /\ listening
    /\ resizeQueued
    /\ resizeQueued' = FALSE
    /\ lastEvent' = "resize"
    /\ resizeRepeated' = (/\ lastEvent = "resize"
                          /\ renderer.width = innerWidth
                          /\ renderer.height = innerHeight)
    /\ ResizeView(innerWidth, innerHeight)
    /\ UNCHANGED <<innerWidth, innerHeight, devicePixelRatio, now,
                   pendingFrames, listening, clock, graphVars, rotationY,
                   planets, script, tickVars>>

Next ==
    \/ PushPlanet
    \/ Start
    \/ \E d \in Delays : Frame(d)
    \/ ReadClock
    \/ SpinSun
    \/ AnimatePlanet
    \/ ControlsUpdate
    \/ Render
    \/ RequestFrame
    \/ AddListener
    \/ \E w \in Widths, h \in Heights, dpr \in PixelRatios : HostResize(w, h, dpr)
    \/ ResizeListener

Spec == Init /\ [][Next]_vars

SpecPair == InitPair /\ [][Next]_vars

\* ------------------------------------------------------------- properties
\* The animate() invocation in progress has finished its rotation updates.
UpdatesDone == pc \in {"controls", "render", "raf"}

\* No animate() invocation is in progress and at least one has completed.
BetweenTicks == pc \in {"listen", "idle"}

\* animate() is on the call stack.
InTick == pc \in {"getDelta", "sun", "planets", "controls", "render", "raf"}

\* What rotation.y of node n gained since animate() was entered.
Gain(n) == rotationY[n] - entryRotationY[n]

\* Every handle of planets[i] has gained its speed times dt in this tick.
PlanetAdvanced(i) ==
    LET p == planets[i]
    IN  /\ Gain(p.orbitPivot) = p.orbitalSpeed * dt
        /\ Gain(p.mesh) = p.spinSpeed * dt
        /\ \A j \in DOMAIN p.moonPivots :
              Gain(p.moonPivots[j].pivot) = p.moonPivots[j].speed * dt

AllAdvanced ==
    /\ Gain(sun) = SunSpinSpeed * dt
    /\ \A i \in DOMAIN planets : PlanetAdvanced(i)

\* Every animated node stands at its speed times the total time t.
RotationsAt(t) ==
    /\ rotationY[sun] = SunSpinSpeed * t
    /\ \A i \in DOMAIN planets :
          LET p == planets[i]
          IN  /\ rotationY[p.orbitPivot] = p.orbitalSpeed * t
              /\ rotationY[p.mesh] = p.spinSpeed * t
              /\ \A j \in DOMAIN p.moonPivots :
                    rotationY[p.moonPivots[j].pivot] = p.moonPivots[j].speed * t

\* C1: one execution of animate() with elapsed time dt adds orbitalSpeed*dt
\* to every orbit pivot, spinSpeed*dt (sign kept) to every planet mesh,
\* moon.orbitalSpeed*dt to every moon pivot and 2.0*dt to the sun, the
\* speeds being those of the parameter table; from zero rotations a tick
\* with dt = 1 s leaves earth at orbit 29.7, spin 18.0, moon pivot 12.0.
C1_TickAddsSpeedTimesDt ==
    UpdatesDone =>
      /\ Gain(sun) = SunSpinSpeed * dt
      /\ \A i \in DOMAIN planets :
            LET o == PlanetTable[i]
                p == planets[i]
            IN  /\ Gain(p.orbitPivot) = o.orbitalSpeed * dt
                /\ Gain(p.mesh) = o.spinSpeed * dt
                /\ o.spinSpeed < 0 => Gain(p.mesh) = -((-o.spinSpeed) * dt)
                /\ Len(p.moonPivots) = Len(Param(o, "moons", <<>>))
                /\ \A j \in DOMAIN p.moonPivots :
                      Gain(p.moonPivots[j].pivot) = o.moons[j].orbitalSpeed * dt
      /\ Gain(planets[2].mesh) = -(20 * dt)
      /\ (dt = OneSecond /\ \A n \in DOMAIN entryRotationY : entryRotationY[n] = 0)
            => /\ rotationY[planets[3].orbitPivot] = 297 * OneSecond
               /\ rotationY[planets[3].mesh] = 180 * OneSecond
               /\ rotationY[planets[3].moonPivots[1].pivot] = 120 * OneSecond

C1_Witness ==
    /\ pc = "raf"
    /\ dt = OneSecond
    /\ \A n \in DOMAIN entryRotationY : entryRotationY[n] = 0
    /\ planets[3].name = "earth"
    /\ rotationY[planets[3].orbitPivot] = 297000
    /\ rotationY[planets[2].mesh] = -20000

\* C2: after any sequence of ticks, interleaved with resizes, every orbit
\* pivot stands at orbitalSpeed times the sum of the elapsed times, which is
\* the time since the clock started, however that time was split.
C2_OrbitAdditive ==
    (script = <<>> /\ (UpdatesDone \/ BetweenTicks)) =>
      /\ clock.elapsedTime = now - clock.startTime
      /\ \A i \in DOMAIN planets :
            rotationY[planets[i].orbitPivot]
              = PlanetTable[i].orbitalSpeed * (now - clock.startTime)

C2_Witness ==
    /\ pc = "idle"
    /\ tickCount = 3
    /\ dt = 500
    /\ now = 1500
    /\ lastEvent = "resize"
    /\ rotationY[planets[1].orbitPivot] = 478 * 1500

\* C3: within a tick the rotation updates come first, then
\* controls.update(), then renderer.render(), then requestAnimationFrame;
\* a render never sees a tick's handles partly advanced.
C3_TickOrder ==
    [][ /\ (pc' # pc /\ InTick) =>
              <<pc, pc'>> \in {<<"getDelta", "sun">>, <<"sun", "planets">>,
                               <<"sun", "controls">>, <<"planets", "controls">>,
                               <<"controls", "render">>, <<"render", "raf">>,
                               <<"raf", "listen">>, <<"raf", "idle">>}
        /\ controlsCount' # controlsCount =>
              /\ AllAdvanced
              /\ controlsCount = tickCount - 1
              /\ renderCount = tickCount - 1
        /\ renderCount' # renderCount =>
              /\ AllAdvanced
              /\ rotationY' = rotationY
              /\ controlsCount = tickCount
              /\ renderCount = tickCount - 1
              /\ pendingFrames = 0
        /\ pendingFrames' > pendingFrames =>
              /\ controlsCount = tickCount
              /\ renderCount = tickCount ]_vars

C3_Witness ==
    /\ pc = "raf"
    /\ dt = 500
    /\ tickCount = 3
    /\ renderCount = 3
    /\ controlsCount = 3
    /\ pendingFrames = 0
    /\ Gain(planets[6].mesh) = 220 * 500

\* C4: once animate() has been called, exactly one tick is executing or
\* scheduled in every state, each tick schedules exactly one successor and
\* the driver never returns to not-started.
C4_OneTickAlive ==
    /\ [](tickCount > 0 =>
            (IF InTick THEN 1 ELSE 0) + pendingFrames = 1)
    /\ [][ /\ tickCount > 0 => (tickCount' >= tickCount /\ pc' # "load")
           /\ (pc = "raf" /\ pc' # pc) => pendingFrames' = pendingFrames + 1
           /\ (InTick /\ pc # "raf") => pendingFrames' = pendingFrames ]_vars

C4_Witness ==
    /\ tickCount = 4
    /\ pc = "idle"
    /\ pendingFrames = 1
    /\ lastEvent = "resize"

\* C5 as stated: after the resize handler, aspect = w/h and the surface is
\* w*min(dpr,2) by h*min(dpr,2) for the ratio the host reports at the time
\* of the resize.
C5_Original ==
    (lastEvent = "resize" /\ ~resizeQueued) =>
      /\ camera.aspect = Quotient(innerWidth, innerHeight)
      /\ 2 * renderer.canvasWidth
           = innerWidth * Min(devicePixelRatio, PixelRatioCap)
      /\ 2 * renderer.canvasHeight
           = innerHeight * Min(devicePixelRatio, PixelRatioCap)

\* C5, amended: after the resize handler, aspect = w/h and the surface is
\* floor(w*r) by floor(h*r), where r is min(devicePixelRatio, 2) as read
\* once at startup; r never changes afterwards.
C5_StartupRatio ==
    /\ renderer.pixelRatio = Min(devicePixelRatio, PixelRatioCap)
    /\ [][renderer.pixelRatio' = renderer.pixelRatio]_vars
    /\ []((lastEvent = "resize" /\ ~resizeQueued) =>
            /\ camera.aspect = Quotient(innerWidth, innerHeight)
            /\ camera.projection = camera.aspect
            /\ renderer.canvasWidth = (innerWidth * renderer.pixelRatio) \div 2
            /\ renderer.canvasHeight = (innerHeight * renderer.pixelRatio) \div 2)

C5_Witness ==
    /\ lastEvent = "resize"
    /\ ~resizeQueued
    /\ innerWidth = 801
    /\ innerHeight = 600
    /\ renderer.pixelRatio = 3
    /\ devicePixelRatio = 2
    /\ renderer.canvasWidth = 1201
    /\ renderer.canvasHeight = 900
    /\ camera.aspect = <<267, 200>>

\* C6: running the resize handler again with the window size it saw the
\* last time leaves camera aspect, projection and surface size as they are.
C6_ResizeIdempotent ==
    [][ (/\ resizeQueued /\ ~resizeQueued'
         /\ lastEvent = "resize"
         /\ innerWidth = renderer.width
         /\ innerHeight = renderer.height)
        => (camera' = camera /\ renderer' = renderer) ]_vars

C6_Witness ==
    /\ resizeRepeated
    /\ ~resizeQueued
    /\ devicePixelRatio # renderer.pixelRatio
    /\ camera.aspect = Quotient(innerWidth, innerHeight)

\* C7: the resize handler runs between ticks and leaves every rotation,
\* the handle list, the parentage and the pending-tick schedule unchanged,
\* so between ticks the rotations are those of the ticks alone.
C7_ResizeFrame ==
    /\ [][ (resizeQueued /\ ~resizeQueued') =>
              /\ ~InTick
              /\ UNCHANGED <<rotationY, rotationZ, position, planets, parent,
                             children, kind, pendingFrames, clock, tickVars>> ]_vars
    /\ []((script = <<>> /\ BetweenTicks) => RotationsAt(now - clock.startTime))

C7_Witness ==
    /\ lastEvent = "resize"
    /\ ~resizeQueued
    /\ tickCount = 2
    /\ renderer.width # 800
    /\ rotationY[planets[4].moonPivots[1].pivot] = 180 * 1000

\* C8: of two planets built alike except for spinSpeed, the moon pivots
\* hang from the body group, not the spinning mesh, and stand at the same
\* rotation, moon.orbitalSpeed times the elapsed time, after every tick.
C8_MoonIndependentOfSpin ==
    (script = <<>> /\ (UpdatesDone \/ BetweenTicks)) =>
      LET a == planets[1]
          b == planets[2]
      IN  /\ rotationY[a.moonPivots[1].pivot] = rotationY[b.moonPivots[1].pivot]
          /\ rotationY[a.moonPivots[1].pivot]
               = a.moonPivots[1].speed * clock.elapsedTime
          /\ parent[a.moonPivots[1].pivot] = a.planetGroup
          /\ parent[b.moonPivots[1].pivot] = b.planetGroup

C8_Witness ==
    /\ script = <<>>
    /\ pc = "idle"
    /\ planets[1].spinSpeed = 0
    /\ planets[2].spinSpeed = 180
    /\ rotationY[planets[1].mesh] = 0
    /\ rotationY[planets[2].mesh] = 180 * 1500
    /\ rotationY[planets[1].moonPivots[1].pivot] = 120 * 1500

\* C9: a ring node is a child of its planet's body group, and its own
\* rotation stays at its creation value while the planet mesh spins.
C9_RingStatic ==
    \A i \in DOMAIN planets :
        LET p == planets[i]
        IN  p.ringMesh # 0 =>
              /\ parent[p.ringMesh] = p.planetGroup
              /\ parent[p.ringMesh] # p.orbitPivot
              /\ parent[p.ringMesh] # p.mesh
              /\ rotationY[p.ringMesh] = 0
              /\ rotationZ[p.ringMesh] = 0

C9_Witness ==
    /\ script = <<>>
    /\ planets[6].ringMesh # 0
    /\ rotationY[planets[6].mesh] = 220 * 2000
    /\ rotationY[planets[6].ringMesh] = 0
    /\ parent[planets[6].ringMesh] = planets[6].planetGroup

\* The nodes of the graph, and the number of children lists holding n.
Nodes == DOMAIN parent
Holders(n) ==
    {m \in Nodes : \E k \in DOMAIN children[m] : children[m][k] = n}

RECURSIVE Ancestor(_, _)
\* The node reached from n by following parent links at most fuel times.
Ancestor(n, fuel) ==
    IF parent[n] = 0 \/ fuel = 0 THEN n ELSE Ancestor(parent[n], fuel - 1)

\* Every node but the scene has one parent, sits once in that parent's
\* children and in no other list, and descends from the scene.
IsTree ==
    /\ parent[scene] = 0
    /\ \A n \in Nodes \ {scene} :
          /\ parent[n] \in Nodes
          /\ Holders(n) = {parent[n]}
          /\ Cardinality({k \in DOMAIN children[parent[n]] :
                             children[parent[n]][k] = n}) = 1
          /\ Ancestor(n, Cardinality(Nodes)) = scene

\* C10: once the scene is assembled the graph is a tree (the sun light
\* hangs from the sun group only), there are six planet handles, and no
\* step adds, removes, re-parents or moves a node or changes the handle
\* list; each body group stays at (distance, 0, 0) from its orbit pivot.
C10_StaticTree ==
    /\ [](script = <<>> =>
            /\ IsTree
            /\ parent[sunLight] = sunGroup
            /\ Holders(sunLight) = {sunGroup}
            /\ Len(planets) = 6
            /\ \A i \in DOMAIN planets :
                  /\ position[planets[i].planetGroup]
                       = <<PlanetTable[i].distance, 0, 0>>
                  /\ parent[planets[i].planetGroup] = planets[i].orbitPivot
                  /\ position[planets[i].orbitPivot] = <<0, 0, 0>>)
    /\ [][script = <<>> =>
            UNCHANGED <<parent, children, kind, position, planets>>]_vars

C10_Witness ==
    /\ script = <<>>
    /\ tickCount = 3
    /\ pc = "idle"
    /\ Cardinality(Nodes) = 38
    /\ rotationY[planets[6].orbitPivot] = 96 * 2000
    /\ position[planets[6].planetGroup] = <<1150, 0, 0>>
====
